---- MODULE Spec2Model ----
(***************************************************************************)
(* Quantum Navigator: the physics validator (PulserValidator.validate and  *)
(* PulserAdapter.compile) and the benchmark telemetry server               *)
(* (BenchmarkConnectionManager, simulate_benchmark_execution,              *)
(* websocket_benchmark) as state machines.                                 *)
(*                                                                         *)
(* Units.  Coordinates are integer micrometres, so every distance is the   *)
(* square root of an integer d2 and every threshold test of the source is  *)
(* done on d2.  Times are integer microseconds: a source start_time or     *)
(* duration of t ns is written t/1000 here, hence the source's             *)
(* duration_us = op.duration / 1000.0 is the duration itself.              *)
(***************************************************************************)
EXTENDS Integers, Sequences, FiniteSets, Bags, TLC

(***************************************************************************)
(* Bounds of the model.                                                    *)
(***************************************************************************)
\* operations of a job
MaxOps == 2
\* the largest coordinate of a target position
Far == 64

None == -1

(***************************************************************************)
(* Sequence helpers.                                                       *)
(***************************************************************************)
RECURSIVE Flatten(_)
Flatten(ss) == IF ss = <<>> THEN <<>> ELSE Head(ss) \o Flatten(Tail(ss))

RECURSIVE SumSeq(_)
SumSeq(s) == IF s = <<>> THEN 0 ELSE Head(s) + SumSeq(Tail(s))

RECURSIVE BagSumSeq(_)
BagSumSeq(s) == IF s = <<>> THEN EmptyBag ELSE Head(s) (+) BagSumSeq(Tail(s))

SeqToBag(s) == BagSumSeq([k \in 1..Len(s) |-> SetToBag({s[k]})])

\* Python's sorted(): a stable sort.  items is a sequence of <<key, value>>.
RECURSIVE InsertStable(_, _)
InsertStable(sorted, e) ==
    IF sorted = <<>> THEN <<e>>
    ELSE IF Head(sorted)[1] <= e[1] THEN <<Head(sorted)>> \o InsertStable(Tail(sorted), e)
    ELSE <<e>> \o sorted

RECURSIVE SortedStable(_)
SortedStable(items) ==
    IF items = <<>> THEN <<>>
    ELSE InsertStable(SortedStable(SubSeq(items, 1, Len(items) - 1)), items[Len(items)])

\* the pairs i < j of 1..n in the order of the nested loops over a list
PairSeq(n) == Flatten([i \in 1..n |-> [k \in 1..(n - i) |-> <<i, i + k>>]])

(***************************************************************************)
(* Exact arithmetic for the metrics.                                       *)
(*   sqrt(d2) = k * sqrt(r) with r square-free; a sum of distances is the  *)
(*   bag holding k copies of r for every term, and two such sums are equal *)
(*   as real numbers iff the bags are equal.                               *)
(***************************************************************************)
Dist2(p, q) == (p[1] - q[1]) * (p[1] - q[1]) + (p[2] - q[2]) * (p[2] - q[2])

SquarePart(d2) ==
    LET roots == {k \in 1..(2 * Far) : k * k <= d2 /\ d2 % (k * k) = 0}
    IN  CHOOSE k \in roots : \A m \in roots : m <= k

DistBag(d2) ==
    IF d2 = 0 THEN EmptyBag
    ELSE LET k == SquarePart(d2) IN [r \in {d2 \div (k * k)} |-> k]

(***************************************************************************)
(* Program constants of the validator.                                     *)
(***************************************************************************)
DEFAULT_MIN_ATOM_DISTANCE == 4
DEFAULT_BLOCKADE_RADIUS == 8
\* DEFAULT_MAX_AOD_VELOCITY = 0.55 = MaxVelNum / MaxVelDen
MaxVelNum == 11
MaxVelDen == 20

HEATING_CRITICAL == 18
HEATING_WARNING == 10
\* the sum of the decoherence terms is kept as a multiple of
\* HEATING_COEFFICIENT / (max_aod_velocity * CostScale); every duration divides CostScale
CostScale == 8 * 15

(***************************************************************************)
(* Values of the IR (schema.py).                                           *)
(***************************************************************************)
TrapRole == {"SLM", "AOD", "BUS", "STORAGE"}

AtomPosition(id, x, y, role, row, col) ==
    [id |-> id, x |-> x, y |-> y, role |-> role, aod_row |-> row, aod_col |-> col]

ZoneDefinition(zid, ztype, x0, x1, y0, y1, shield) ==
    [zone_id |-> zid, zone_type |-> ztype, x_min |-> x0, x_max |-> x1,
     y_min |-> y0, y_max |-> y1, shielding_light |-> shield]

\* zones = <<>> stands for zones = None (a register is never given an empty list here)
NeutralAtomRegister(atoms, zones) ==
    [atoms |-> atoms, zones |-> zones,
     min_atom_distance |-> DEFAULT_MIN_ATOM_DISTANCE,
     blockade_radius |-> DEFAULT_BLOCKADE_RADIUS]

ShuttleMove(ids, targets, start, duration) ==
    [op_type |-> "shuttle", start_time |-> start, duration |-> duration,
     atom_ids |-> ids, target_positions |-> targets,
     control_atom |-> None, target_atom |-> None]

RydbergGate(c, t, start) ==
    [op_type |-> "rydberg_gate", start_time |-> start, duration |-> 0,
     atom_ids |-> <<>>, target_positions |-> <<>>,
     control_atom |-> c, target_atom |-> t]

Measurement(ids, start) ==
    [op_type |-> "measure", start_time |-> start, duration |-> 0,
     atom_ids |-> ids, target_positions |-> <<>>,
     control_atom |-> None, target_atom |-> None]

\* duration is omega.duration
GlobalPulse(start, duration) ==
    [op_type |-> "global_pulse", start_time |-> start, duration |-> duration,
     atom_ids |-> <<>>, target_positions |-> <<>>,
     control_atom |-> None, target_atom |-> None]

ContainsPoint(zone, p) ==
    /\ zone.x_min <= p[1] /\ p[1] <= zone.x_max
    /\ zone.y_min <= p[2] /\ p[2] <= zone.y_max

\* the index of the first zone holding p, 0 for None
GetZoneAtPosition(register, p) ==
    LET hits == {k \in 1..Len(register.zones) : ContainsPoint(register.zones[k], p)}
    IN  IF hits = {} THEN 0 ELSE CHOOSE k \in hits : \A m \in hits : k <= m

GetZonesByType(register, ztype) ==
    SelectSeq(register.zones, LAMBDA z : z.zone_type = ztype)

AtomIdsOf(register) == {register.atoms[k].id : k \in 1..Len(register.atoms)}

AtomById(register, id) ==
    register.atoms[CHOOSE k \in 1..Len(register.atoms) : register.atoms[k].id = id]

InitialPositions(register) ==
    [id \in AtomIdsOf(register) |-> <<AtomById(register, id).x, AtomById(register, id).y>>]

(***************************************************************************)
(* Errors and warnings.  A message of the source is kept as the values it  *)
(* is formatted from.                                                      *)
(***************************************************************************)
Error(kind, atoms, d2) == [kind |-> kind, atoms |-> atoms, d2 |-> d2, detail |-> ""]

\* TopologicalViolationError: its message names the crossed axis, no atoms
TopologicalViolationError(axis) ==
    [kind |-> "TopologicalViolation", atoms |-> <<>>, d2 |-> 0, detail |-> axis]

ValidationWarning(code, severity, atoms, op_index) ==
    [code |-> code, severity |-> severity, atoms |-> atoms, operation_index |-> op_index]

(***************************************************************************)
(* PulserValidator._validate_register_geometry                             *)
(***************************************************************************)
\* a limit that counts the minimum distance itself as too close
TooCloseAtLimit(d2, min_dist) == d2 <= min_dist * min_dist

\* dist < min_dist
TooClose(d2, min_dist) == d2 < min_dist * min_dist
\* dist < min_dist * 1.1
NearMin(d2, min_dist) == 100 * d2 < 121 * min_dist * min_dist

ValidateRegisterGeometry(register) ==
    LET atoms == register.atoms
        min_dist == register.min_atom_distance
        d2of(pr) == Dist2(<<atoms[pr[1]].x, atoms[pr[1]].y>>, <<atoms[pr[2]].x, atoms[pr[2]].y>>)
        ids(pr) == <<atoms[pr[1]].id, atoms[pr[2]].id>>
        pairs == PairSeq(Len(atoms))
        pairErrors(pr) ==
            IF TooClose(d2of(pr), min_dist)
            THEN <<Error("Collision", ids(pr), d2of(pr))>> ELSE <<>>
        pairWarnings(pr) ==
            IF ~TooClose(d2of(pr), min_dist) /\ NearMin(d2of(pr), min_dist)
            THEN <<ValidationWarning("NEAR_COLLISION", "medium", ids(pr), None)>> ELSE <<>>
        gridWarnings(a) ==
            IF a.role = "AOD" /\ (a.aod_row = None \/ a.aod_col = None)
            THEN <<ValidationWarning("MISSING_AOD_GRID", "high", <<a.id>>, None)>> ELSE <<>>
    IN  [errors |-> Flatten([k \in 1..Len(pairs) |-> pairErrors(pairs[k])]),
         warnings |-> Flatten([k \in 1..Len(pairs) |-> pairWarnings(pairs[k])])
                      \o Flatten([k \in 1..Len(atoms) |-> gridWarnings(atoms[k])])]

(***************************************************************************)
(* PulserValidator._validate_shuttle and _check_topological_constraint     *)
(***************************************************************************)
\* the atoms a ShuttleMove may move: aod_atoms of _validate_shuttle
ShuttleableRoles == {"AOD"}

\* velocity = dist / duration_us, infinite for a zero duration
VelocityExceeded(d2, dur) ==
    IF dur > 0 THEN MaxVelDen * MaxVelDen * d2 > MaxVelNum * MaxVelNum * dur * dur ELSE TRUE
\* velocity > max_aod_velocity * 0.8
HighVelocity(d2, dur) ==
    IF dur > 0 THEN 25 * MaxVelDen * MaxVelDen * d2 > 16 * MaxVelNum * MaxVelNum * dur * dur
    ELSE TRUE
\* HeatingModel.calculate_nvib_increase(dist, velocity) = 0.01 * d2 / dur  >  limit
NvibAbove(d2, dur, limit) == IF dur > 0 THEN d2 > 100 * limit * dur ELSE d2 > 0
\* AtomLossModel.calculate_loss_probability(delta_nvib) as a multiple of 1 / (100000 * dur)
LossProbability(d2, dur) ==
    LET excess == IF d2 > 100 * HEATING_CRITICAL * dur THEN d2 - 100 * HEATING_CRITICAL * dur ELSE 0
        p == 100 * dur + 5 * excess
    IN  IF p > 100000 * dur THEN 100000 * dur ELSE p

\* dict(zip(op.atom_ids, op.target_positions)): the last entry of an atom wins
TargetOf(op, id) ==
    op.target_positions[CHOOSE k \in 1..Len(op.atom_ids) :
        /\ op.atom_ids[k] = id
        /\ \A m \in (k + 1)..Len(op.atom_ids) : op.atom_ids[m] # id]

MovedAtoms(op) == {op.atom_ids[k] : k \in 1..Len(op.atom_ids)}

\* one pass of the per-atom loop
ShuttleAtom(op, register, current_positions, op_index, i) ==
    LET atom_id == op.atom_ids[i]
        d2 == Dist2(op.target_positions[i], current_positions[atom_id])
        dur == op.duration
        velocityPart ==
            IF VelocityExceeded(d2, dur)
            THEN [errors |-> <<Error("VelocityExceeded", <<atom_id>>, d2)>>, warnings |-> <<>>]
            ELSE IF HighVelocity(d2, dur)
            THEN [errors |-> <<>>,
                  warnings |-> <<ValidationWarning("HIGH_VELOCITY", "medium", <<atom_id>>, op_index)>>]
            ELSE [errors |-> <<>>, warnings |-> <<>>]
        heatingPart ==
            IF NvibAbove(d2, dur, HEATING_CRITICAL)
            THEN <<ValidationWarning("HEATING_HIGH_NVIB", "high", <<atom_id>>, op_index)>>
            ELSE IF NvibAbove(d2, dur, HEATING_WARNING)
            THEN <<ValidationWarning("HEATING_MODERATE", "medium", <<atom_id>>, op_index)>>
            ELSE <<>>
        p_loss == LossProbability(d2, dur)
        lossPart ==
            IF p_loss > 5000 * dur
            THEN <<ValidationWarning("ATOM_LOSS_RISK",
                       IF p_loss > 10000 * dur THEN "high" ELSE "medium", <<atom_id>>, op_index)>>
            ELSE <<>>
    IN  IF AtomById(register, atom_id).role \notin ShuttleableRoles
        THEN [errors |-> <<Error("PhysicsConstraint", <<atom_id>>, 0)>>, warnings |-> <<>>,
              movement |-> EmptyBag, cost |-> 0]
        ELSE [errors |-> velocityPart.errors,
              warnings |-> velocityPart.warnings \o heatingPart \o lossPart,
              movement |-> DistBag(d2),
              cost |-> d2 * (CostScale \div dur)]

\* the y (axis = 2) or x (axis = 1) an atom is ordered by before the move
TopologyStartCoordinate(register, current_positions, id, axis) ==
    IF axis = 2 THEN AtomById(register, id).y ELSE AtomById(register, id).x

\* a check that reports every crossed axis instead of returning at the first
CheckEveryAxis(op, register, current_positions) ==
    LET withGrid == SelectSeq(op.atom_ids, LAMBDA id :
                        LET a == AtomById(register, id)
                        IN  a.role = "AOD" /\ a.aod_row # None /\ a.aod_col # None)
        order(key(_)) ==
            LET srt == SortedStable([k \in 1..Len(withGrid) |-> <<key(withGrid[k]), withGrid[k]>>])
            IN  [k \in 1..Len(srt) |-> srt[k][2]]
        initialY(id) == TopologyStartCoordinate(register, current_positions, id, 2)
        initialX(id) == TopologyStartCoordinate(register, current_positions, id, 1)
        targetY(id) == TargetOf(op, id)[2]
        targetX(id) == TargetOf(op, id)[1]
    IN  IF Len(withGrid) < 2 THEN <<>>
        ELSE (IF order(initialY) # order(targetY)
              THEN <<TopologicalViolationError("row")>> ELSE <<>>)
             \o (IF order(initialX) # order(targetX)
                 THEN <<TopologicalViolationError("column")>> ELSE <<>>)

CheckTopologicalConstraint(op, register, current_positions) ==
    LET withGrid == SelectSeq(op.atom_ids, LAMBDA id :
                        LET a == AtomById(register, id)
                        IN  a.role = "AOD" /\ a.aod_row # None /\ a.aod_col # None)
        order(key(_)) ==
            LET srt == SortedStable([k \in 1..Len(withGrid) |-> <<key(withGrid[k]), withGrid[k]>>])
            IN  [k \in 1..Len(srt) |-> srt[k][2]]
        initialY(id) == TopologyStartCoordinate(register, current_positions, id, 2)
        initialX(id) == TopologyStartCoordinate(register, current_positions, id, 1)
        targetY(id) == TargetOf(op, id)[2]
        targetX(id) == TargetOf(op, id)[1]
    IN  IF Len(withGrid) < 2 THEN <<>>
        ELSE IF order(initialY) # order(targetY)
        THEN <<TopologicalViolationError("row")>>
        ELSE IF order(initialX) # order(targetX)
        THEN <<TopologicalViolationError("column")>>
        ELSE <<>>

\* new_positions: every listed atom at its target
PositionsAfter(op, current_positions) ==
    [id \in DOMAIN current_positions |->
        IF id \in MovedAtoms(op) THEN TargetOf(op, id) ELSE current_positions[id]]

ValidateShuttle(op, register, current_positions, op_index) ==
    LET perAtom == [i \in 1..Len(op.atom_ids) |->
                        ShuttleAtom(op, register, current_positions, op_index, i)]
        new_positions == PositionsAfter(op, current_positions)
        atoms == register.atoms
        n == Len(atoms)
        collision(i, j) ==
            LET id1 == atoms[i].id
                id2 == atoms[j].id
                d2 == Dist2(new_positions[id1], new_positions[id2])
            IN  IF id1 < id2 /\ TooClose(d2, register.min_atom_distance)
                THEN <<Error("Collision", <<id1, id2>>, d2)>> ELSE <<>>
    IN  [errors |-> Flatten([i \in 1..Len(perAtom) |-> perAtom[i].errors])
                    \o CheckTopologicalConstraint(op, register, current_positions)
                    \o Flatten([i \in 1..n |-> Flatten([j \in 1..n |-> collision(i, j)])]),
         warnings |-> Flatten([i \in 1..Len(perAtom) |-> perAtom[i].warnings]),
         movement |-> BagSumSeq([i \in 1..Len(perAtom) |-> perAtom[i].movement]),
         cost |-> SumSeq([i \in 1..Len(perAtom) |-> perAtom[i].cost])]

(***************************************************************************)
(* PulserValidator._validate_rydberg_gate, _validate_global_pulse_zones,   *)
(* _validate_measurement_zones, _validate_operation                        *)
(***************************************************************************)
ValidateRydbergGate(op, register, current_positions, op_index) ==
    LET known == op.control_atom \in DOMAIN current_positions
                 /\ op.target_atom \in DOMAIN current_positions
        d2 == Dist2(current_positions[op.control_atom], current_positions[op.target_atom])
        blockade == register.blockade_radius
        pair == <<op.control_atom, op.target_atom>>
        tooFar == d2 > blockade * blockade
        \* dist > blockade * 0.9
        weak == 100 * d2 > 81 * blockade * blockade
    IN  IF ~known THEN [errors |-> <<>>, warnings |-> <<>>]
        ELSE [errors |-> (IF tooFar THEN <<Error("BlockadeDistance", pair, d2)>> ELSE <<>>)
                         \o (IF TooClose(d2, register.min_atom_distance)
                             THEN <<Error("Collision", pair, d2)>> ELSE <<>>),
              warnings |-> IF ~tooFar /\ weak
                           THEN <<ValidationWarning("WEAK_BLOCKADE", "high", pair, op_index)>>
                           ELSE <<>>]

ValidateGlobalPulseZones(op, register, current_positions, op_index) ==
    LET zoneOf(id) == GetZoneAtPosition(register, current_positions[id])
        ids == [k \in 1..Len(register.atoms) |-> register.atoms[k].id]
        atoms_in_storage == SelectSeq(ids, LAMBDA id :
            zoneOf(id) # 0 /\ register.zones[zoneOf(id)].zone_type = "STORAGE")
        shielded_atoms == SelectSeq(atoms_in_storage, LAMBDA id :
            register.zones[zoneOf(id)].shielding_light)
    IN  IF register.zones = <<>> \/ GetZonesByType(register, "STORAGE") = <<>>
           \/ atoms_in_storage = <<>>
        THEN [errors |-> <<>>, warnings |-> <<>>]
        ELSE IF shielded_atoms # <<>>
        THEN [errors |-> <<>>,
              warnings |-> <<ValidationWarning("PULSE_IN_SHIELDED_ZONE", "high",
                                               shielded_atoms, op_index)>>]
        ELSE [errors |-> <<>>,
              warnings |-> <<ValidationWarning("PULSE_IN_STORAGE_ZONE", "medium",
                                               atoms_in_storage, op_index)>>]

ValidateMeasurementZones(op, register, current_positions, op_index) ==
    LET zoneOf(id) == GetZoneAtPosition(register, current_positions[id])
        atoms_outside_readout == SelectSeq(op.atom_ids, LAMBDA id :
            zoneOf(id) = 0 \/ register.zones[zoneOf(id)].zone_type # "READOUT")
    IN  IF register.zones = <<>> \/ GetZonesByType(register, "READOUT") = <<>>
           \/ atoms_outside_readout = <<>>
        THEN [errors |-> <<>>, warnings |-> <<>>]
        ELSE [errors |-> <<>>,
              warnings |-> <<ValidationWarning("MEASUREMENT_OUTSIDE_READOUT", "medium",
                                               atoms_outside_readout, op_index)>>]

ValidateOperation(op, register, current_positions, op_index) ==
    LET noMetrics(r) == [errors |-> r.errors, warnings |-> r.warnings,
                         movement |-> EmptyBag, cost |-> 0]
    IN  CASE op.op_type = "shuttle" ->
                ValidateShuttle(op, register, current_positions, op_index)
          [] op.op_type = "rydberg_gate" ->
                noMetrics(ValidateRydbergGate(op, register, current_positions, op_index))
          [] op.op_type = "global_pulse" ->
                noMetrics(ValidateGlobalPulseZones(op, register, current_positions, op_index))
          [] op.op_type = "measure" ->
                noMetrics(ValidateMeasurementZones(op, register, current_positions, op_index))
          [] OTHER -> [errors |-> <<>>, warnings |-> <<>>, movement |-> EmptyBag, cost |-> 0]

\* a walk that commits no position
CommitNothing(op, current_positions) == current_positions

\* validate, lines 195-198: the positions after an operation of the walk
CommitPositions(op, current_positions) ==
    IF op.op_type = "shuttle" THEN PositionsAfter(op, current_positions) ELSE current_positions

(***************************************************************************)
(* PulserValidator._check_temporal_overlaps                                *)
(***************************************************************************)
\* intervals that also count as overlapping when one ends where the other starts
OverlapOrTouch(s1, e1, s2, e2) == s1 <= e2 /\ s2 <= e1

\* the overlap test of two intervals (line 662)
Overlap(s1, e1, s2, e2) == s1 < e2 /\ s2 < e1

CheckTemporalOverlaps(operations) ==
    LET idx == SelectSeq([k \in 1..Len(operations) |-> k], LAMBDA k :
                   operations[k].duration > 0 /\ operations[k].op_type = "shuttle")
        s(k) == operations[idx[k]].start_time
        e(k) == operations[idx[k]].start_time + operations[idx[k]].duration
        pairs == PairSeq(Len(idx))
        overlap(pr) ==
            IF Overlap(s(pr[1]), e(pr[1]), s(pr[2]), e(pr[2]))
            THEN <<ValidationWarning("CONCURRENT_SHUTTLES", "high",
                                     <<idx[pr[1]] - 1, idx[pr[2]] - 1>>, idx[pr[2]] - 1)>>
            ELSE <<>>
    IN  Flatten([k \in 1..Len(pairs) |-> overlap(pairs[k])])

\* a result that tolerates one error
IsValidUpToOne(errors) == Len(errors) <= 1

\* validate, line 205
IsValid(errors) == Len(errors) = 0

\* the order validate walks job.operations in (lines 186-198): the list order
WalkOrder(operations) == operations

(***************************************************************************)
(* PulserValidator.validate as a fold: the state of the walk and one pass  *)
(* of the loop of lines 186-198.                                           *)
(***************************************************************************)
WalkStart(register) ==
    LET geom == ValidateRegisterGeometry(register)
    IN  [current_positions |-> InitialPositions(register),
         errors |-> geom.errors, warnings |-> geom.warnings,
         total_movement |-> EmptyBag, decoherence_cost |-> 0]

WalkStep(w, register, op, i) ==
    LET r == ValidateOperation(op, register, w.current_positions, i)
    IN  [current_positions |-> CommitPositions(op, w.current_positions),
         errors |-> w.errors \o r.errors,
         warnings |-> w.warnings \o r.warnings,
         total_movement |-> w.total_movement (+) r.movement,
         decoherence_cost |-> w.decoherence_cost + r.cost]

ValidationResult(w, operations) ==
    [is_valid |-> IsValid(w.errors),
     errors |-> w.errors,
     warnings |-> w.warnings \o CheckTemporalOverlaps(operations),
     estimated_decoherence_cost |-> w.decoherence_cost,
     total_movement_distance |-> w.total_movement]

RECURSIVE WalkAll(_, _, _, _)
WalkAll(w, register, operations, i) ==
    IF i >= Len(operations) THEN w
    ELSE WalkAll(WalkStep(w, register, operations[i + 1], i), register, operations, i + 1)

\* validate(job) for a job with this register and this list of operations
Validate(register, operations) ==
    ValidationResult(WalkAll(WalkStart(register), register, WalkOrder(operations), 0),
                     operations)

(***************************************************************************)
(* The jobs the validator is run on.                                       *)
(***************************************************************************)
Durations == {1, 8, 40, 60}
StartTimes == {0, 40}

AtomKinds0 == {<<"AOD", 0>>, <<"AOD", None>>, <<"SLM", None>>, <<"BUS", None>>,
               <<"STORAGE", None>>}
AtomKinds1 == {<<"AOD", 1>>, <<"SLM", None>>}
Places1 == {<<4, 0>>, <<3, 0>>, <<8, 0>>, <<0, 10>>}

\* registers without zones
PlainRegisters ==
    {NeutralAtomRegister(<<AtomPosition(0, 0, 0, k0[1], k0[2], k0[2]),
                           AtomPosition(1, p1[1], p1[2], k1[1], k1[2], k1[2])>>, <<>>) :
        k0 \in AtomKinds0, k1 \in AtomKinds1, p1 \in Places1}

\* zone lists: a READOUT zone alone, with (8, 0) on its edge, and a READOUT zone
\* listed after a STORAGE zone that lies inside it
ZoneLayouts ==
    {<<ZoneDefinition("readout", "READOUT", 0, 8, 0, 20, FALSE)>>,
     <<ZoneDefinition("storage", "STORAGE", 0, 5, 0, 5, TRUE),
       ZoneDefinition("readout", "READOUT", 0, 10, 0, 20, FALSE)>>}

ZonedAtomKinds0 == {<<"AOD", 0>>, <<"SLM", None>>}
ZonedPlaces1 == {<<8, 0>>, <<0, 10>>}

\* registers of a zoned architecture
ZonedRegisters ==
    {NeutralAtomRegister(<<AtomPosition(0, 0, 0, k0[1], k0[2], k0[2]),
                           AtomPosition(1, p1[1], p1[2], "AOD", 1, 1)>>, zones) :
        k0 \in ZonedAtomKinds0, p1 \in ZonedPlaces1, zones \in ZoneLayouts}

Registers == PlainRegisters \cup ZonedRegisters

OperationMenu ==
    UNION {{ShuttleMove(<<0>>, <<<<0, 15>>>>, t, 60),
            ShuttleMove(<<0>>, <<<<0, 4>>>>, t, 8),
            ShuttleMove(<<1>>, <<<<6, 0>>>>, t, 40),
            ShuttleMove(<<0, 1>>, <<<<0, 15>>, <<0, 10>>>>, t, 60),
            ShuttleMove(<<0>>, <<<<Far, 0>>>>, t, 1),
            RydbergGate(0, 1, t),
            Measurement(<<0, 1>>, t)} : t \in StartTimes}
        \cup {GlobalPulse(0, 1),
              ShuttleMove(<<0, 1>>, <<<<12, 12>>, <<6, 6>>>>, 0, 60)}

OperationLists == UNION {[1..n -> OperationMenu] : n \in 1..MaxOps}

\* registers of three atoms: atoms 0 and 1 are static, 3 um or 8 um apart, and
\* atom 2 is mobile and far from both
CrowdedRegisters ==
    {NeutralAtomRegister(<<AtomPosition(0, 0, 0, "SLM", None, None),
                           AtomPosition(1, p1[1], p1[2], "SLM", None, None),
                           AtomPosition(2, 0, 20, "AOD", None, None)>>, <<>>) :
        p1 \in {<<3, 0>>, <<8, 0>>}}

CrowdedMenu ==
    {ShuttleMove(<<2>>, <<<<0, 24>>>>, 0, 8),
     Measurement(<<0, 1, 2>>, 0)}

CrowdedLists == UNION {[1..n -> CrowdedMenu] : n \in 1..MaxOps}

Jobs ==
    [register : Registers, operations : OperationLists]
        \cup [register : CrowdedRegisters, operations : CrowdedLists]

(***************************************************************************)
(* State.                                                                  *)
(***************************************************************************)
VARIABLES
    \* validator and adapter
    job,                \* the NeutralAtomJob under validation
    strict_mode,        \* PulserValidator.strict_mode
    pc,                 \* where validate / compile stands
    op_index,           \* operations walked so far (the next i of enumerate)
    current_positions,  \* validate's current_positions
    errors,             \* validate's errors
    warnings,           \* validate's warnings
    total_movement,     \* validate's total_movement
    decoherence_cost,   \* validate's decoherence_cost
    validation,         \* the ValidationResult returned, or NoResult
    compilation         \* the CompilationResult of PulserAdapter.compile

vvars == <<job, strict_mode, pc, op_index, current_positions, errors, warnings,
           total_movement, decoherence_cost, validation, compilation>>

\* no ValidationResult yet: no result of validate has is_valid = FALSE and no error
NoResult == [is_valid |-> FALSE, errors |-> <<>>, warnings |-> <<>>,
             estimated_decoherence_cost |-> 0, total_movement_distance |-> EmptyBag]

\* CompilationResult(success=False), line 224
NewCompilation ==
    [success |-> FALSE, sequence |-> "None", validated |-> FALSE,
     errors |-> <<>>, warnings |-> <<>>, stopped_at |-> "running"]

Walk == [current_positions |-> current_positions, errors |-> errors, warnings |-> warnings,
         total_movement |-> total_movement, decoherence_cost |-> decoherence_cost]

InitValidator ==
    /\ job \in Jobs
    /\ strict_mode \in BOOLEAN
    /\ pc = "start"
    /\ op_index = 0
    /\ current_positions = InitialPositions(job.register)
    /\ errors = <<>>
    /\ warnings = <<>>
    /\ total_movement = EmptyBag
    /\ decoherence_cost = 0
    /\ validation = NoResult
    /\ compilation = NewCompilation

SetWalk(w) ==
    /\ current_positions' = w.current_positions
    /\ errors' = w.errors
    /\ warnings' = w.warnings
    /\ total_movement' = w.total_movement
    /\ decoherence_cost' = w.decoherence_cost

(***************************************************************************)
(* server.py: the state of the benchmark telemetry service.                *)
(*   manager     the module's BenchmarkConnectionManager (lines 206-243)   *)
(*   handler     per WebSocket, the position of its websocket_benchmark    *)
(*               coroutine and the locals of simulate_benchmark_execution  *)
(*   closed      per WebSocket, the code of the server's websocket.close   *)
(*   frames      the payloads handed to send_json, in emission order, each *)
(*               with the socket it went to and the handler that sent it   *)
(*   stop_seen   history: where a handler stood when the first effective   *)
(*               stop request for its client arrived                       *)
(*   dropped     history: per WebSocket, whether manager.disconnect removed *)
(*               its client's entries while its simulation was running     *)
(***************************************************************************)
VARIABLES manager, handler, closed, frames, stop_seen, dropped

svars == <<manager, handler, closed, frames, stop_seen, dropped>>

VARIABLES
    \* construction of the IR models
    candidate,          \* the arguments a NeutralAtomRegister or NeutralAtomJob is built from
    built               \* "pending", "accepted", or the exception the constructor raised

VARIABLES
    \* the router
    router,             \* a SpectralAODRouter: its width and height
    graph,              \* the graph handed to optimize_mapping
    mapping             \* what optimize_mapping gave: its dict, or the exception raised

rvars == <<router, graph, mapping>>

cvars == <<candidate, built, rvars>>

\* validate, lines 171-184: the register pre-walk
ValidateGeometry ==
    /\ pc = "start"
    /\ SetWalk(WalkStart(job.register))
    /\ pc' = "walk"
    /\ UNCHANGED <<job, strict_mode, op_index, validation, compilation>>
    /\ UNCHANGED <<svars, cvars>>

\* validate, lines 186-198: one operation of the walk
ValidateNextOperation ==
    /\ pc = "walk"
    /\ op_index < Len(job.operations)
    /\ SetWalk(WalkStep(Walk, job.register, WalkOrder(job.operations)[op_index + 1], op_index))
    /\ op_index' = op_index + 1
    /\ UNCHANGED <<job, strict_mode, pc, validation, compilation>>
    /\ UNCHANGED <<svars, cvars>>

\* validate, lines 200-210: the overlap pass and the result
ValidateReturn ==
    /\ pc = "walk"
    /\ op_index = Len(job.operations)
    /\ validation' = ValidationResult(Walk, job.operations)
    /\ warnings' = validation'.warnings
    /\ pc' = "validated"
    /\ UNCHANGED <<job, strict_mode, op_index, current_positions, errors,
                   total_movement, decoherence_cost, compilation>>
    /\ UNCHANGED <<svars, cvars>>

\* compile, lines 224-237, validate = True: the result of self.validator.validate(job)
CompileValidation ==
    /\ pc = "validated"
    /\ IF ~validation.is_valid
       THEN /\ compilation' = [NewCompilation EXCEPT !.validated = TRUE,
                                   !.errors = validation.errors,
                                   !.stopped_at = "validation"]
            /\ pc' = "returned"
       ELSE /\ compilation' = [NewCompilation EXCEPT !.validated = TRUE,
                                   !.warnings = validation.warnings]
            /\ pc' = "compile_device"
    /\ UNCHANGED <<job, strict_mode, op_index, current_positions, errors, warnings,
                   total_movement, decoherence_cost, validation>>
    /\ UNCHANGED <<svars, cvars>>

\* compile, lines 224-227, validate = False
CompileWithoutValidation ==
    /\ pc = "start"
    /\ compilation' = NewCompilation
    /\ pc' = "compile_device"
    /\ UNCHANGED <<job, strict_mode, op_index, current_positions, errors, warnings,
                   total_movement, decoherence_cost, validation>>
    /\ UNCHANGED <<svars, cvars>>

\* compile, lines 238-244: job.device.backend_id is looked up in DEVICE_REGISTRY
CompileDevice ==
    /\ pc = "compile_device"
    /\ \E known \in BOOLEAN :
          IF known
          THEN /\ pc' = "compile_build"
               /\ UNCHANGED compilation
          ELSE /\ compilation' = [compilation EXCEPT
                       !.errors = Append(@, Error("UnknownDevice", <<>>, 0)),
                       !.stopped_at = "device"]
               /\ pc' = "returned"
    /\ UNCHANGED <<job, strict_mode, op_index, current_positions, errors, warnings,
                   total_movement, decoherence_cost, validation>>
    /\ UNCHANGED <<svars, cvars>>

\* compile, lines 246-282: Pulser builds the sequence, refuses a channel or raises
CompileBuild ==
    /\ pc = "compile_build"
    /\ \E outcome \in {"ok", "channel", "exception"} :
          compilation' =
              IF outcome = "ok"
              THEN [compilation EXCEPT !.success = TRUE, !.sequence = "Sequence",
                                       !.stopped_at = "finished"]
              ELSE [compilation EXCEPT
                       !.errors = Append(@, Error(outcome, <<>>, 0)),
                       !.stopped_at = outcome]
    /\ pc' = "returned"
    /\ UNCHANGED <<job, strict_mode, op_index, current_positions, errors, warnings,
                   total_movement, decoherence_cost, validation>>
    /\ UNCHANGED <<svars, cvars>>

(***************************************************************************)
(* server.py: the benchmark telemetry service.                             *)
(*                                                                         *)
(* Units: n_vib in 1/10000, fidelity in parts per million, a percentage    *)
(* 100.0 * cycle / total_cycles as the pair <<100 * cycle, total_cycles>>. *)
(***************************************************************************)
Conns == {"ws1", "ws2"}

\* the sockets of the service: those of Conns and one that connects later
Sockets == Conns \cup {"ws3"}

\* the client_id of the request path; IsValidClientId is the match of
\* ^[a-zA-Z0-9_\-]{1,64}$ on these ids
ClientIds == {"a", "b", "bad id"}

IsValidClientId(client_id) == client_id \in {"a", "b"}

ALLOWED_BENCHMARK_TYPES ==
    {"velocity_fidelity", "ancilla_vs_swap", "cooling_strategies", "zoned_cycles",
     "sustainable_depth", "full"}

BenchmarkTypeInputs == {"full", " Full ", "", "rm -rf"}

\* benchmark_type.strip().lower() on the inputs above
StripLower(benchmark_type) == IF benchmark_type = " Full " THEN "full" ELSE benchmark_type

\* validate_benchmark_type returns instead of raising ValueError
ValidBenchmarkType(benchmark_type) ==
    /\ benchmark_type # ""
    /\ StripLower(benchmark_type) \in ALLOWED_BENCHMARK_TYPES

\* data.get("cycles", 50): an int, or a value of another type
CycleInputs ==
    {[is_int |-> TRUE, value |-> v] : v \in {0, 1, 2, 1001}}
        \cup {[is_int |-> FALSE, value |-> 0]}

DEFAULT_CYCLES == 50

MAX_CYCLES == 1000

\* websocket_benchmark, lines 483-485
RequestedCycles(raw) ==
    IF ~raw.is_int \/ raw.value < 1 \/ raw.value > MAX_CYCLES
    THEN DEFAULT_CYCLES ELSE raw.value

\* simulate_benchmark_execution, line 272: max(1, min(total_cycles, 1000))
ClampCycles(total_cycles) ==
    LET low == IF total_cycles < MAX_CYCLES THEN total_cycles ELSE MAX_CYCLES
    IN  IF low > 1 THEN low ELSE 1

HEATING_RATE == 500

COOLING_THRESHOLD == 15000

N_VIB_AFTER_COOLING == 1000

INITIAL_FIDELITY == 999900

\* 1 + random.uniform(-0.1, 0.1), in thousandths
HeatingDraws == {900, 1000, 1100}

Percentage(cycle, total_cycles) == <<100 * cycle, total_cycles>>

TelemetryPayload(status, percentage, cycle, atoms_lost, n_vib, fidelity, backlog) ==
    [status |-> status, percentage |-> percentage, cycle |-> cycle,
     atoms_lost |-> atoms_lost, n_vib |-> n_vib, fidelity |-> fidelity,
     decoder_backlog_ms |-> backlog, timestamp |-> None]

\* the frames of websocket_benchmark, all with cycle = 0
FixedTelemetry(status) ==
    TelemetryPayload(status, Percentage(0, 1), 0, 0, 0,
                     IF status = "CONNECTING" THEN 1000000 ELSE 0, 0)

\* a STOPPED frame that reports the last finished cycle
StoppedAtFinishedCycle(cycle, total_cycles, total_atoms_lost, n_vib, fidelity) ==
    TelemetryPayload("STOPPED", Percentage(cycle - 1, total_cycles), cycle - 1,
                     total_atoms_lost, n_vib, fidelity, 0)

\* simulate_benchmark_execution, lines 287-296
StoppedTelemetry(cycle, total_cycles, total_atoms_lost, n_vib, fidelity) ==
    TelemetryPayload("STOPPED", Percentage(cycle, total_cycles), cycle,
                     total_atoms_lost, n_vib, fidelity, 0)

NewManager ==
    [active_connections |-> <<>>, running_benchmarks |-> <<>>,
     authenticated_clients |-> {}]

Without(dict, key) == [k \in DOMAIN dict \ {key} |-> dict[k]]

ManagerConnect(m, client_id, websocket) ==
    [m EXCEPT !.active_connections = (client_id :> websocket) @@ @]

ManagerAuthenticate(m, client_id) ==
    [m EXCEPT !.authenticated_clients = @ \cup {client_id},
              !.running_benchmarks = (client_id :> TRUE) @@ @]

ManagerDisconnect(m, client_id) ==
    [active_connections |-> Without(m.active_connections, client_id),
     running_benchmarks |-> Without(m.running_benchmarks, client_id),
     authenticated_clients |-> m.authenticated_clients \ {client_id}]

\* a stop that clears the flag of every run
ManagerStopEvery(m, client_id) ==
    IF client_id \in DOMAIN m.running_benchmarks
    THEN [m EXCEPT !.running_benchmarks = [k \in DOMAIN @ |-> FALSE]]
    ELSE m

ManagerStopBenchmark(m, client_id) ==
    IF client_id \in DOMAIN m.running_benchmarks
    THEN [m EXCEPT !.running_benchmarks = (client_id :> FALSE) @@ @]
    ELSE m

\* manager.running_benchmarks.get(client_id, False)
IsRunning(m, client_id) ==
    client_id \in DOMAIN m.running_benchmarks /\ m.running_benchmarks[client_id]

\* timestamp = datetime.now().isoformat(): the clock is read as each frame is built,
\* at an instant later than that of every frame already sent; the instants are
\* numbered in the order of the frames
Now(sent) == Len(sent)

\* send_telemetry: the frame goes to the socket now registered under client_id
SendTelemetry(sent, m, client_id, run, telemetry) ==
    IF client_id \in DOMAIN m.active_connections
    THEN Append(sent, [socket |-> m.active_connections[client_id], run |-> run,
                       payload |-> [telemetry EXCEPT !.timestamp = Now(sent)]])
    ELSE sent

\* the "cycles" entry of a command that has not been received
NoCycles == [is_int |-> FALSE, value |-> 0]

\* the locals of websocket_benchmark and of simulate_benchmark_execution; cycles is
\* data.get("cycles", 50) as received
NewHandler ==
    [pc |-> "idle", client_id |-> "", cycles |-> NoCycles, total_cycles |-> 0,
     cycle |-> 0, n_vib |-> 0, total_atoms_lost |-> 0, fidelity |-> 0]

NoStop == [phase |-> "none", cycle |-> 0]

NotClosed == "open"

InitServer ==
    /\ manager = NewManager
    /\ handler = [w \in Sockets |-> NewHandler]
    /\ closed = [w \in Sockets |-> NotClosed]
    /\ frames = <<>>
    /\ stop_seen = [w \in Sockets |-> NoStop]
    /\ dropped = [w \in Sockets |-> FALSE]

Locals(w) == handler[w]

Simulating(h) == h.pc \in {"sim_poll", "sim_wait"}

\* disconnect, lines 227-233, as a run sees it: the step removes the entries of
\* its client_id while the run goes on
RecordDrops ==
    dropped' = [v \in Sockets |->
        \/ dropped[v]
        \/ /\ Simulating(handler[v]) /\ Simulating(handler'[v])
           /\ handler[v].client_id \in DOMAIN manager.active_connections
                                         \cup DOMAIN manager.running_benchmarks
           /\ handler[v].client_id \notin DOMAIN manager'.active_connections
                                          \cup DOMAIN manager'.running_benchmarks]

\* websocket_benchmark, lines 414-418: the path's client_id is matched, the socket
\* accepted and registered
WsConnect(w) ==
    /\ handler[w].pc = "idle"
    /\ \E client_id \in ClientIds :
          IF ~IsValidClientId(client_id)
          THEN /\ closed' = [closed EXCEPT ![w] = "4000"]
               /\ handler' = [handler EXCEPT ![w].pc = "done", ![w].client_id = client_id]
               /\ UNCHANGED manager
          ELSE /\ manager' = ManagerConnect(manager, client_id, w)
               /\ handler' = [handler EXCEPT ![w].pc = "await_auth",
                                             ![w].client_id = client_id]
               /\ UNCHANGED closed
    /\ UNCHANGED <<frames, stop_seen>>
    /\ RecordDrops
    /\ UNCHANGED <<vvars, cvars>>

\* websocket_benchmark, lines 423-458: the first message
RecvAuth(w) ==
    /\ handler[w].pc = "await_auth"
    /\ \E message \in {"not auth", "bad token", "auth"} :
          IF message = "auth"
          THEN /\ manager' = ManagerAuthenticate(manager, handler[w].client_id)
               /\ handler' = [handler EXCEPT ![w].pc = "await_command"]
               /\ UNCHANGED <<frames, closed>>
          ELSE /\ frames' = SendTelemetry(frames, manager, handler[w].client_id, w,
                                FixedTelemetry(IF message = "not auth"
                                               THEN "AUTH_REQUIRED" ELSE "ERROR"))
               /\ closed' = [closed EXCEPT ![w] = "4001"]
               /\ manager' = ManagerDisconnect(manager, handler[w].client_id)
               /\ handler' = [handler EXCEPT ![w].pc = "done"]
    /\ UNCHANGED stop_seen
    /\ RecordDrops
    /\ UNCHANGED <<vvars, cvars>>

\* websocket_benchmark, lines 423 and 502-505: no first message within 10 s
AuthTimeout(w) ==
    /\ handler[w].pc = "await_auth"
    /\ closed' = [closed EXCEPT ![w] = "4002"]
    /\ manager' = ManagerDisconnect(manager, handler[w].client_id)
    /\ handler' = [handler EXCEPT ![w].pc = "done"]
    /\ UNCHANGED <<frames, stop_seen>>
    /\ RecordDrops
    /\ UNCHANGED <<vvars, cvars>>

\* websocket_benchmark, lines 506-507: receive_json raises WebSocketDisconnect
ClientDisconnect(w) ==
    /\ handler[w].pc \in {"await_auth", "await_command"}
    /\ closed' = [closed EXCEPT ![w] = "by client"]
    /\ manager' = ManagerDisconnect(manager, handler[w].client_id)
    /\ handler' = [handler EXCEPT ![w].pc = "done"]
    /\ UNCHANGED <<frames, stop_seen>>
    /\ RecordDrops
    /\ UNCHANGED <<vvars, cvars>>

\* websocket_benchmark, lines 461-500, and simulate_benchmark_execution up to its
\* loop (lines 264-282): the type validated at line 466 passes again at line 266
RecvCommand(w) ==
    /\ handler[w].pc = "await_command"
    /\ \E benchmark_type \in BenchmarkTypeInputs, raw \in CycleInputs :
          IF ~ValidBenchmarkType(benchmark_type)
          THEN /\ frames' = SendTelemetry(frames, manager, handler[w].client_id, w,
                                          FixedTelemetry("ERROR"))
               /\ manager' = ManagerDisconnect(manager, handler[w].client_id)
               /\ handler' = [handler EXCEPT ![w].pc = "done"]
          ELSE /\ frames' = SendTelemetry(frames, manager, handler[w].client_id, w,
                                          FixedTelemetry("CONNECTING"))
               /\ handler' = [handler EXCEPT
                      ![w].pc = "sim_poll",
                      ![w].cycles = raw,
                      ![w].total_cycles = ClampCycles(RequestedCycles(raw)),
                      ![w].cycle = 1,
                      ![w].n_vib = 0,
                      ![w].total_atoms_lost = 0,
                      ![w].fidelity = INITIAL_FIDELITY]
               /\ UNCHANGED manager
    /\ UNCHANGED <<closed, stop_seen>>
    /\ RecordDrops
    /\ UNCHANGED <<vvars, cvars>>

\* simulate_benchmark_execution, lines 284-300: the poll of the stop flag at the
\* head of a cycle; a stopped run returns, and its handler returns after it
\* without a call of manager.disconnect
SimPoll(w) ==
    /\ handler[w].pc = "sim_poll"
    /\ IF ~IsRunning(manager, handler[w].client_id)
       THEN /\ frames' = SendTelemetry(frames, manager, handler[w].client_id, w,
                             StoppedTelemetry(Locals(w).cycle, Locals(w).total_cycles,
                                              Locals(w).total_atoms_lost,
                                              Locals(w).n_vib, Locals(w).fidelity))
            /\ handler' = [handler EXCEPT ![w].pc = "done"]
       ELSE /\ handler' = [handler EXCEPT ![w].pc = "sim_wait"]
            /\ UNCHANGED frames
    /\ UNCHANGED <<manager, closed, stop_seen>>
    /\ RecordDrops
    /\ UNCHANGED <<vvars, cvars>>

\* n_vib += HEATING_RATE * (1 + random.uniform(-0.1, 0.1)), then the cooling reset
Heated(n_vib, draw) ==
    LET heated == n_vib + (HEATING_RATE * draw) \div 1000
    IN  IF heated > COOLING_THRESHOLD THEN N_VIB_AFTER_COOLING ELSE heated

\* fidelity *= (1 - 0.0001 * n_vib), rounded down to the unit
Decayed(fidelity, n_vib) == fidelity - ((fidelity \div 1000) * n_vib) \div 100000

\* simulate_benchmark_execution, lines 300-337, and websocket_benchmark, lines
\* 508-510: after the sleep the cycle draws its atom loss and heating and reaches
\* math.exp at line 337.  server.py binds no name math (its imports are lines
\* 14-34 and 512), so the call raises NameError in the first cycle of every run:
\* the handler's except Exception logs it and calls manager.disconnect.  Lines
\* 339-383, the RUNNING and COMPLETED frames, are never executed.
SimCycle(w) ==
    /\ handler[w].pc = "sim_wait"
    /\ \E lost \in {0, 1}, draw \in HeatingDraws :
          handler' = [handler EXCEPT
              ![w].pc = "done",
              ![w].total_atoms_lost = @ + lost,
              ![w].n_vib = Heated(@, draw),
              ![w].fidelity = Decayed(@, Heated(Locals(w).n_vib, draw))]
    /\ manager' = ManagerDisconnect(manager, handler[w].client_id)
    /\ UNCHANGED <<closed, frames, stop_seen>>
    /\ RecordDrops
    /\ UNCHANGED <<vvars, cvars>>

\* where the handler of socket w stands as a stop request for client_id takes effect
SeenBy(w, client_id) ==
    IF /\ stop_seen[w] = NoStop
       /\ handler[w].client_id = client_id
       /\ handler[w].pc \in {"await_command", "sim_poll", "sim_wait"}
       /\ IsRunning(manager, client_id)
    THEN [phase |-> handler[w].pc, cycle |-> handler[w].cycle]
    ELSE stop_seen[w]

\* POST /ws/benchmarks/{client_id}/stop, lines 524-532: a request without the API
\* key is refused with 401, one with a malformed client_id with 400
HttpStop ==
    /\ \E client_id \in ClientIds, key_ok \in BOOLEAN :
          IF key_ok /\ IsValidClientId(client_id)
          THEN /\ manager' = ManagerStopBenchmark(manager, client_id)
               /\ stop_seen' = [w \in Sockets |-> SeenBy(w, client_id)]
          ELSE UNCHANGED <<manager, stop_seen>>
    /\ UNCHANGED <<handler, closed, frames>>
    /\ RecordDrops
    /\ UNCHANGED <<vvars, cvars>>

(***************************************************************************)
(* Construction of NeutralAtomRegister and NeutralAtomJob (schema.py).  A  *)
(* field constraint or a ValueError of a validator surfaces as pydantic's  *)
(* ValidationError; any other exception leaves the constructor as it is.   *)
(***************************************************************************)
\* ShieldingEvent, lines 473-490: atom_ids is Optional and None when not given
ShieldingEvent(zone_ids, atom_ids_is_none, atom_ids, start, duration) ==
    [op_type |-> "shielding", start_time |-> start, duration |-> duration,
     zone_ids |-> zone_ids, atom_ids_is_none |-> atom_ids_is_none, atom_ids |-> atom_ids]

\* hasattr(op, name) for the four names validate_operation_atoms_exist asks for
HasAttr(op, name) ==
    CASE name = "target_atoms" -> FALSE
      [] name = "atom_ids" -> op.op_type \in {"shuttle", "measure", "shielding"}
      [] name \in {"control_atom", "target_atom"} -> op.op_type = "rydberg_gate"

\* referenced_ids.update(op.atom_ids) with atom_ids = None raises TypeError
UpdateRaises(op) ==
    HasAttr(op, "atom_ids") /\ op.op_type = "shielding" /\ op.atom_ids_is_none

\* referenced_ids of one operation, lines 657-666
ReferencedIds(op) ==
    (IF HasAttr(op, "atom_ids") THEN {op.atom_ids[k] : k \in 1..Len(op.atom_ids)} ELSE {})
        \cup (IF HasAttr(op, "control_atom") THEN {op.control_atom} ELSE {})
        \cup (IF HasAttr(op, "target_atom") THEN {op.target_atom} ELSE {})

\* NeutralAtomJob.validate_operation_atoms_exist from operation i on: the first
\* operation that raises ends the loop
RECURSIVE ValidateOperationAtomsExist(_, _, _)
ValidateOperationAtomsExist(register, operations, i) ==
    IF i > Len(operations) THEN "accepted"
    ELSE IF UpdateRaises(operations[i]) THEN "TypeError"
    ELSE IF ReferencedIds(operations[i]) \ AtomIdsOf(register) # {} THEN "ValidationError"
    ELSE ValidateOperationAtomsExist(register, operations, i + 1)

\* NeutralAtomJob(register = ..., operations = ...): min_length = 1 of line 646,
\* then the validator
ConstructJob(register, operations) ==
    IF Len(operations) < 1 THEN "ValidationError"
    ELSE ValidateOperationAtomsExist(register, operations, 1)

\* NeutralAtomRegister.validate_unique_ids, lines 283-290
UniqueIds(atoms) ==
    \A k, l \in 1..Len(atoms) : atoms[k].id = atoms[l].id => k = l

\* the field constraints of lines 270-275
RegisterFieldsInRange(r) ==
    /\ 1 <= r.min_atom_distance /\ r.min_atom_distance <= 20
    /\ 4 <= r.blockade_radius /\ r.blockade_radius <= 15
    /\ 1 <= Len(r.atoms) /\ Len(r.atoms) <= 256

\* NeutralAtomRegister(atoms = ..., min_atom_distance = ..., blockade_radius = ...)
ConstructRegister(r) ==
    IF RegisterFieldsInRange(r) /\ UniqueIds(r.atoms) THEN "accepted" ELSE "ValidationError"

MinDistances == {0, 1, 4, 10, 20, 21}
BlockadeRadii == {3, 4, 5, 8, 15, 16}

AtomLists ==
    {<<>>,
     <<AtomPosition(0, 0, 0, "SLM", None, None)>>,
     <<AtomPosition(0, 0, 0, "SLM", None, None), AtomPosition(1, 6, 0, "SLM", None, None)>>,
     <<AtomPosition(0, 0, 0, "SLM", None, None), AtomPosition(0, 6, 0, "SLM", None, None)>>}

RegisterCandidates ==
    {[kind |-> "register",
      register |-> [NeutralAtomRegister(atoms, <<>>) EXCEPT !.min_atom_distance = m,
                                                            !.blockade_radius = b],
      operations |-> <<>>] :
        atoms \in AtomLists, m \in MinDistances, b \in BlockadeRadii}

\* the register of tests/test_schema_comprehensive.py, test_job_with_zones
SimpleRegister ==
    NeutralAtomRegister(<<AtomPosition(0, 0, 0, "SLM", None, None),
                          AtomPosition(1, 6, 0, "SLM", None, None)>>,
                        <<ZoneDefinition("test_zone", "ENTANGLEMENT", -10, 10, -10, 10, FALSE)>>)

\* an id no atom of SimpleRegister has
UnknownId == 999

JobOperationMenu ==
    {Measurement(<<0, 1>>, 0),
     Measurement(<<0, 1, UnknownId>>, 0),
     RydbergGate(0, 1, 0),
     RydbergGate(0, UnknownId, 0),
     ShuttleMove(<<UnknownId>>, <<<<0, 4>>>>, 0, 8),
     GlobalPulse(0, 1),
     ShieldingEvent(<<"test_zone">>, TRUE, <<>>, 0, 50),
     ShieldingEvent(<<>>, FALSE, <<0>>, 0, 50),
     ShieldingEvent(<<>>, FALSE, <<UnknownId>>, 0, 50)}

JobCandidates ==
    {[kind |-> "job", register |-> SimpleRegister, operations |-> ops] :
        ops \in UNION {[1..n -> JobOperationMenu] : n \in 0..2}}

NoCandidate == [kind |-> "none", register |-> SimpleRegister, operations |-> <<>>]

InitSchemaIdle ==
    /\ candidate = NoCandidate
    /\ built = "pending"

BuildRegister ==
    /\ candidate.kind = "register"
    /\ built = "pending"
    /\ built' = ConstructRegister(candidate.register)
    /\ UNCHANGED candidate
    /\ UNCHANGED <<vvars, svars, rvars>>

BuildJob ==
    /\ candidate.kind = "job"
    /\ built = "pending"
    /\ built' = ConstructJob(candidate.register, candidate.operations)
    /\ UNCHANGED candidate
    /\ UNCHANGED <<vvars, svars, rvars>>

(***************************************************************************)
(* SpectralAODRouter (optimizer.py).  Distances and costs are in tenths.   *)
(***************************************************************************)
\* SpectralAODRouter.__init__
SpectralAODRouter(width, height) == [width |-> width, height |-> height]

\* an nx.Graph with the nodes 0 .. nodes - 1 and weighted edges
Graph(nodes, edges) == [nodes |-> nodes, edges |-> edges]

Edge(u, v, weight) == [u |-> u, v |-> v, weight |-> weight]

\* len([(x, y) for x in range(self.width) for y in range(self.height)]), line 80
GridSlots(r) == r.width * r.height

\* a sample that already fails on a graph that fills the grid
SampleRaisesWhenFull(r, g) == g.nodes >= GridSlots(r)

\* random.sample(population, k) raises ValueError when k exceeds the population
SampleRaises(r, g) == g.nodes > GridSlots(r)

\* avg_dist, lines 97-104: (width + height) / 2.5 for "random", 1.8 for "spectral"
AvgDist(r, mode) == IF mode = "random" THEN 4 * (r.width + r.height) ELSE 18

\* _calculate_physics_cost, lines 106-122, with the edges whose draw
\* random.random() < conflict_prob succeeded counted in conflicts
PhysicsCost(r, g, mode, conflicts) ==
    LET total_dist == SumSeq([k \in 1..Len(g.edges) |-> g.edges[k].weight * AvgDist(r, mode)])
    IN  [total_distance |-> total_dist,
         aod_conflicts |-> conflicts,
         total_cost |-> total_dist + 50 * conflicts]

\* the dict optimize_mapping returns, lines 57-67; heating_reduction_percent is
\* kept as the fraction <<numerator, denominator>> it is rounded from
MappingResult(unopt_cost, opt_cost) ==
    [status |-> "returned",
     initial_cost |-> unopt_cost.total_cost,
     optimized_cost |-> opt_cost.total_cost,
     heating_reduction_percent |->
         IF unopt_cost.total_distance > 0
         THEN <<100 * (unopt_cost.total_distance - opt_cost.total_distance),
                unopt_cost.total_distance>>
         ELSE <<0, 1>>,
     total_distance_euclidean |-> opt_cost.total_distance,
     aod_conflicts_avoided |-> unopt_cost.aod_conflicts - opt_cost.aod_conflicts]

NoMapping(status) ==
    [status |-> status, initial_cost |-> 0, optimized_cost |-> 0,
     heating_reduction_percent |-> <<0, 1>>, total_distance_euclidean |-> 0,
     aod_conflicts_avoided |-> 0]

GridSides == {0, 1, 2}
MaxNodes == 5

EdgeMenu == {Edge(0, 1, 1), Edge(1, 2, 2), Edge(0, 2, 1)}

\* the graphs: every edge joins two nodes of the graph
Graphs ==
    {Graph(n, SortedEdges) :
        n \in 0..MaxNodes,
        SortedEdges \in {<<>>} \cup {<<e>> : e \in EdgeMenu}
                          \cup {<<Edge(0, 1, 1), Edge(1, 2, 2)>>}}

WellFormed(g) == \A k \in 1..Len(g.edges) : g.edges[k].u < g.nodes /\ g.edges[k].v < g.nodes

IdleRouter ==
    /\ router = SpectralAODRouter(1, 1)
    /\ graph = Graph(0, <<>>)
    /\ mapping = NoMapping("pending")

InitRouter ==
    /\ router \in {SpectralAODRouter(w, h) : w \in GridSides, h \in GridSides}
    /\ graph \in {g \in Graphs : WellFormed(g)}
    /\ mapping = NoMapping("pending")

\* optimize_mapping, lines 44-67: the "random" cost is computed first and raises
\* when the sample does; each edge adds a conflict with probability 0.3, then 0.05
OptimizeMapping ==
    /\ mapping.status = "pending"
    /\ IF SampleRaises(router, graph)
       THEN mapping' = NoMapping("ValueError")
       ELSE \E unopt_conflicts \in 0..Len(graph.edges), opt_conflicts \in 0..Len(graph.edges) :
               mapping' = MappingResult(PhysicsCost(router, graph, "random", unopt_conflicts),
                                        PhysicsCost(router, graph, "spectral", opt_conflicts))
    /\ UNCHANGED <<router, graph>>
    /\ UNCHANGED <<vvars, svars, candidate, built>>

vars == <<vvars, svars, cvars>>

Init == InitValidator /\ InitServer /\ InitSchemaIdle /\ IdleRouter

Next ==
    \/ ValidateGeometry
    \/ ValidateNextOperation
    \/ ValidateReturn
    \/ CompileValidation
    \/ CompileWithoutValidation
    \/ CompileDevice
    \/ CompileBuild

Spec == Init /\ [][Next]_vars

\* the job at rest while the telemetry service is observed
IdleJob ==
    [register |-> NeutralAtomRegister(<<AtomPosition(0, 0, 0, "SLM", None, None)>>, <<>>),
     operations |-> <<Measurement(<<0>>, 0)>>]

InitTelemetry ==
    /\ job = IdleJob
    /\ strict_mode = FALSE
    /\ pc = "start"
    /\ op_index = 0
    /\ current_positions = InitialPositions(job.register)
    /\ errors = <<>>
    /\ warnings = <<>>
    /\ total_movement = EmptyBag
    /\ decoherence_cost = 0
    /\ validation = NoResult
    /\ compilation = NewCompilation
    /\ InitServer
    /\ InitSchemaIdle
    /\ IdleRouter

NextServer ==
    \/ \E w \in Conns : WsConnect(w)
    \/ \E w \in Conns : RecvAuth(w)
    \/ \E w \in Conns : AuthTimeout(w)
    \/ \E w \in Conns : ClientDisconnect(w)
    \/ \E w \in Conns : RecvCommand(w)
    \/ \E w \in Conns : SimPoll(w)
    \/ \E w \in Conns : SimCycle(w)
    \/ HttpStop

SpecServer == InitTelemetry /\ [][NextServer]_vars

\* three sockets of one client: every connection is made as client "a", the run is
\* started over ws1, a command asks for two cycles, and the draws of a cycle are
\* one of each
OneClient ==
    \A w \in Sockets :
        /\ handler[w].client_id \in {"", "a"}
        /\ handler[w].total_cycles \in (IF w = "ws1" THEN {0, 2} ELSE {0})
        /\ handler[w].cycles \in {NoCycles, [is_int |-> TRUE, value |-> 2]}
        /\ handler[w].total_atoms_lost = 0
        /\ handler[w].n_vib \in {0, HEATING_RATE}

NextReconnect ==
    \/ \E w \in Sockets : WsConnect(w) /\ OneClient'
    \/ \E w \in Sockets : RecvAuth(w) /\ OneClient'
    \/ \E w \in Sockets : AuthTimeout(w) /\ OneClient'
    \/ \E w \in Sockets : ClientDisconnect(w) /\ OneClient'
    \/ \E w \in Sockets : RecvCommand(w) /\ OneClient'
    \/ \E w \in Sockets : SimPoll(w) /\ OneClient'
    \/ \E w \in Sockets : SimCycle(w) /\ OneClient'
    \/ HttpStop

SpecReconnect == InitTelemetry /\ [][NextReconnect]_vars

InitSchema ==
    /\ job = IdleJob
    /\ strict_mode = FALSE
    /\ pc = "start"
    /\ op_index = 0
    /\ current_positions = InitialPositions(job.register)
    /\ errors = <<>>
    /\ warnings = <<>>
    /\ total_movement = EmptyBag
    /\ decoherence_cost = 0
    /\ validation = NoResult
    /\ compilation = NewCompilation
    /\ InitServer
    /\ candidate \in RegisterCandidates \cup JobCandidates
    /\ built = "pending"
    /\ IdleRouter

NextSchema ==
    \/ BuildRegister
    \/ BuildJob

SpecSchema == InitSchema /\ [][NextSchema]_vars

InitOptimizer ==
    /\ job = IdleJob
    /\ strict_mode = FALSE
    /\ pc = "start"
    /\ op_index = 0
    /\ current_positions = InitialPositions(job.register)
    /\ errors = <<>>
    /\ warnings = <<>>
    /\ total_movement = EmptyBag
    /\ decoherence_cost = 0
    /\ validation = NoResult
    /\ compilation = NewCompilation
    /\ InitServer
    /\ candidate = NoCandidate
    /\ built = "pending"
    /\ InitRouter

NextOptimizer == OptimizeMapping

SpecOptimizer == InitOptimizer /\ [][NextOptimizer]_vars

(***************************************************************************)
(* Comparing two results of validate.  Errors and warnings are compared as *)
(* bags, and a warning without its operation_index (a CONCURRENT_SHUTTLES  *)
(* warning names nothing but indices).                                     *)
(***************************************************************************)
WithoutIndex(w) ==
    [code |-> w.code, severity |-> w.severity,
     atoms |-> IF w.code = "CONCURRENT_SHUTTLES" THEN <<>> ELSE w.atoms]

ModuloIndex(r) ==
    [is_valid |-> r.is_valid,
     errors |-> SeqToBag(r.errors),
     warnings |-> SeqToBag([k \in 1..Len(r.warnings) |-> WithoutIndex(r.warnings[k])]),
     estimated_decoherence_cost |-> r.estimated_decoherence_cost,
     total_movement_distance |-> r.total_movement_distance]

\* sorted(operations, key=start_time)
SortedByStartTime(operations) ==
    LET srt == SortedStable([k \in 1..Len(operations) |->
                                <<operations[k].start_time, operations[k]>>])
    IN  [k \in 1..Len(srt) |-> srt[k][2]]

\* the reorderings of a list that move an operation only to a place whose
\* operation has the same start_time
EqualStartReorderings(operations) ==
    LET n == Len(operations)
        perms == {f \in [1..n -> 1..n] : \A a, b \in 1..n : a # b => f[a] # f[b]}
    IN  {[k \in 1..n |-> operations[f[k]]] : f \in
            {g \in perms : \A k \in 1..n :
                operations[g[k]].start_time = operations[k].start_time}}

Returned == pc \notin {"start", "walk"} /\ validation # NoResult

\* C1: validate walks the operations in start_time order: a job gives the result of
\* the same job with its operations sorted by start_time.
C1_WalksInStartTimeOrder ==
    Returned =>
        ModuloIndex(validation)
            = ModuloIndex(Validate(job.register, SortedByStartTime(job.operations)))

\* C2: permuting operations of equal start_time leaves is_valid, the errors, the
\* warnings (without indices) and both metrics unchanged.
C2_EqualStartOrderIrrelevant ==
    Returned =>
        \A ops \in EqualStartReorderings(job.operations) :
            ModuloIndex(validation) = ModuloIndex(Validate(job.register, ops))

\* C3: an error makes is_valid false and stops compile at the validation step with
\* success = false and no sequence; without errors is_valid is true and compile is
\* not stopped by the validation step, whatever the warnings.
C3_ErrorsPreventExecution ==
    /\ Returned => (validation.is_valid <=> validation.errors = <<>>)
    /\ (compilation.validated /\ validation.errors # <<>>) =>
           /\ pc = "returned"
           /\ compilation.stopped_at = "validation"
           /\ ~compilation.success
           /\ compilation.sequence = "None"
    /\ (compilation.validated /\ validation.errors = <<>>) =>
           /\ validation.is_valid
           /\ compilation.stopped_at # "validation"
           /\ compilation.warnings = validation.warnings

\* C3: compile has returned at the validation step for a job with errors and warnings
C3_Witness ==
    /\ pc = "returned"
    /\ compilation.validated
    /\ validation.errors # <<>>
    /\ validation.warnings # <<>>

PromotedCodes == {"NEAR_COLLISION", "WEAK_BLOCKADE", "HIGH_VELOCITY", "HEATING_MODERATE"}

PromotedFound(r) == {k \in 1..Len(r.warnings) : r.warnings[k].code \in PromotedCodes}

\* C9: under strict_mode a near-collision, weak-blockade, high-velocity or
\* near-critical-heating condition is an error and no warning; without it the
\* condition is a warning that leaves is_valid alone.
C9_StrictPromotesWarnings ==
    Returned =>
        /\ strict_mode => PromotedFound(validation) = {}
        /\ ~strict_mode => (validation.is_valid <=> validation.errors = <<>>)

\* the "cannot shuttle" errors that name atom id
CannotShuttleErrors(r, id) ==
    Len(SelectSeq(r.errors, LAMBDA e : e.kind = "PhysicsConstraint" /\ e.atoms = <<id>>))

\* how often the ShuttleMoves of a job list atom id
TimesListed(operations, id) ==
    SumSeq([k \in 1..Len(operations) |->
        IF operations[k].op_type = "shuttle"
        THEN Len(SelectSeq(operations[k].atom_ids, LAMBDA a : a = id)) ELSE 0])

\* C10: a listed atom draws the "cannot shuttle" error exactly when its role is
\* neither AOD nor BUS.
C10_OnlyStaticAtomsRejected ==
    Returned =>
        \A id \in AtomIdsOf(job.register) :
            CannotShuttleErrors(validation, id) =
                IF AtomById(job.register, id).role \in {"AOD", "BUS"} THEN 0
                ELSE TimesListed(job.operations, id)

(***************************************************************************)
(* The frames of one run, in emission order.                               *)
(***************************************************************************)
FramesOf(w, statuses) ==
    LET mine == SelectSeq(frames, LAMBDA f : f.run = w /\ f.payload.status \in statuses)
    IN  [k \in 1..Len(mine) |-> mine[k].payload]

RunFrames(w) == FramesOf(w, {"CONNECTING", "RUNNING", "STOPPED", "COMPLETED"})

SimulationFrames(w) == FramesOf(w, {"RUNNING", "STOPPED", "COMPLETED"})

HasFrame(w, cycle, statuses) ==
    \E k \in 1..Len(frames) :
        /\ frames[k].run = w
        /\ frames[k].payload.cycle = cycle
        /\ frames[k].payload.status \in statuses

AllStatuses == {"AUTH_REQUIRED", "ERROR", "CONNECTING", "RUNNING", "STOPPED", "COMPLETED"}

\* no other socket was opened under the client_id of w
Alone(w) == \A v \in Conns \ {w} : handler[v].client_id # handler[w].client_id

\* C4: a stop that arrives after the frame of cycle k and before cycle k + 1 starts
\* keeps every frame with cycle number k + 1 from the client.
C4_NoFrameOfNextCycle ==
    \A w \in Conns :
        (/\ stop_seen[w].phase = "sim_poll"
         /\ HasFrame(w, stop_seen[w].cycle - 1, AllStatuses))
            => ~HasFrame(w, stop_seen[w].cycle, AllStatuses)

\* C5: a stop that arrives during the wait of cycle k still gives the frame of
\* cycle k, with status STOPPED.
C5_StoppedFrameOfCurrentCycle ==
    \A w \in Conns :
        (/\ stop_seen[w].phase = "sim_wait"
         /\ handler[w].pc = "done"
         /\ Alone(w))
            => HasFrame(w, stop_seen[w].cycle, {"STOPPED"})

C7_RunsToCompletion ==
    \A w \in Conns :
        (/\ handler[w].pc = "done"
         /\ handler[w].total_cycles > 0
         /\ stop_seen[w] = NoStop
         /\ Alone(w))
            => LET sent == SimulationFrames(w)
                   N == handler[w].total_cycles
               IN  /\ Len(sent) = N + 1
                   /\ \A k \in 1..N :
                          sent[k].status = "RUNNING" /\ sent[k].cycle = k
                   /\ sent[N + 1].status = "COMPLETED"
                   /\ sent[N + 1].cycle = N
                   /\ sent[N + 1].percentage[1] = 100 * sent[N + 1].percentage[2]

(***************************************************************************)
(* Positions as validate holds them when it reaches the k-th operation.    *)
(***************************************************************************)
PositionsBefore(register, operations, k) ==
    WalkAll(WalkStart(register), register, SubSeq(operations, 1, k - 1), 0).current_positions

\* the AOD atoms of a register that carry aod_row and aod_col
GridAtoms(register) ==
    {id \in AtomIdsOf(register) :
        LET a == AtomById(register, id)
        IN  a.role = "AOD" /\ a.aod_row # None /\ a.aod_col # None}

\* op reverses the order of atoms a and b along an axis (1 = x, 2 = y)
Reverses(op, positions, a, b, axis) ==
    LET after == PositionsAfter(op, positions)
    IN  \/ positions[a][axis] < positions[b][axis] /\ after[a][axis] > after[b][axis]
        \/ positions[a][axis] > positions[b][axis] /\ after[a][axis] < after[b][axis]

\* the ShuttleMoves of a job that move a grid atom across another grid atom
CrossingMoves(j) ==
    {k \in 1..Len(j.operations) :
        /\ j.operations[k].op_type = "shuttle"
        /\ \E a \in GridAtoms(j.register) \cap MovedAtoms(j.operations[k]) :
           \E b \in GridAtoms(j.register) \ {a}, axis \in {1, 2} :
              Reverses(j.operations[k], PositionsBefore(j.register, j.operations, k),
                       a, b, axis)}

HasError(r, kind) == \E k \in 1..Len(r.errors) : r.errors[k].kind = kind

\* C11: a ShuttleMove that reverses the row or column order of a grid-indexed AOD
\* atom against another one gives a TopologicalViolation error and is_valid = false,
\* also when it lists only the one atom.
C11_CrossingIsRejected ==
    (Returned /\ CrossingMoves(job) # {}) =>
        HasError(validation, "TopologicalViolation") /\ ~validation.is_valid

\* the register pre-walk has run and no operation has been walked
AfterPreWalk == pc = "walk" /\ op_index = 0

\* how many errors of a kind, or warnings of a code, name the pair {a, b}
ErrorsOnPair(errs, kind, a, b) ==
    Len(SelectSeq(errs, LAMBDA e : e.kind = kind /\ e.atoms \in {<<a, b>>, <<b, a>>}))

WarningsOnPair(warns, code, a, b) ==
    Len(SelectSeq(warns, LAMBDA w : w.code = code /\ w.atoms \in {<<a, b>>, <<b, a>>}))

\* the squared distance of two atoms of a register as it was built
RegisterDist2(register, a, b) ==
    Dist2(<<AtomById(register, a).x, AtomById(register, a).y>>,
          <<AtomById(register, b).x, AtomById(register, b).y>>)

\* C12: in the register pre-walk a pair at distance d gives one Collision error iff
\* d < min_atom_distance, one NEAR_COLLISION warning iff
\* min_atom_distance <= d < 1.1 * min_atom_distance, and nothing otherwise.
C12_PairRule ==
    AfterPreWalk =>
        /\ \A k \in 1..Len(errors) : errors[k].kind = "Collision"
        /\ \A a, b \in AtomIdsOf(job.register) :
            a < b =>
                LET d2 == RegisterDist2(job.register, a, b)
                    m == job.register.min_atom_distance
                    collides == d2 < m * m
                    near == d2 >= m * m /\ 100 * d2 < 121 * m * m
                IN  /\ ErrorsOnPair(errors, "Collision", a, b) = IF collides THEN 1 ELSE 0
                    /\ WarningsOnPair(warnings, "NEAR_COLLISION", a, b) = IF near THEN 1 ELSE 0

\* C12: a register whose two atoms stand exactly at min_atom_distance has been
\* pre-walked: a NEAR_COLLISION warning and no error
C12_Witness ==
    /\ AfterPreWalk
    /\ RegisterDist2(job.register, 0, 1)
           = job.register.min_atom_distance * job.register.min_atom_distance
    /\ errors = <<>>
    /\ WarningsOnPair(warnings, "NEAR_COLLISION", 0, 1) = 1


\* the CONCURRENT_SHUTTLES warnings of a result that name operations k and l (1-based)
ConcurrentWarnings(r, k, l) ==
    SelectSeq(r.warnings, LAMBDA w : w.code = "CONCURRENT_SHUTTLES" /\ w.atoms = <<k - 1, l - 1>>)

\* the half-open intervals [start_time, start_time + duration) of two operations meet
IntervalsIntersect(o1, o2) ==
    \/ o2.start_time <= o1.start_time /\ o1.start_time < o2.start_time + o2.duration
    \/ o1.start_time <= o2.start_time /\ o2.start_time < o1.start_time + o1.duration

ShuttlePairs(j) ==
    {pr \in (1..Len(j.operations)) \X (1..Len(j.operations)) :
        /\ pr[1] < pr[2]
        /\ j.operations[pr[1]].op_type = "shuttle"
        /\ j.operations[pr[2]].op_type = "shuttle"}

\* C13: validate emits exactly one CONCURRENT_SHUTTLES warning of severity high for
\* every unordered pair of ShuttleMoves whose half-open intervals intersect, none for
\* a pair where one ends exactly when the other starts, and these warnings add no
\* error and leave is_valid as the walk's errors decide it.
C13_ConcurrentShuttles ==
    Returned =>
        /\ \A pr \in ShuttlePairs(job) :
              LET ws == ConcurrentWarnings(validation, pr[1], pr[2])
              IN  /\ Len(ws) = IF IntervalsIntersect(job.operations[pr[1]],
                                                     job.operations[pr[2]]) THEN 1 ELSE 0
                  /\ \A k \in 1..Len(ws) : ws[k].severity = "high"
        /\ Cardinality({k \in 1..Len(validation.warnings) :
                           validation.warnings[k].code = "CONCURRENT_SHUTTLES"})
              = Cardinality({pr \in ShuttlePairs(job) :
                                IntervalsIntersect(job.operations[pr[1]],
                                                   job.operations[pr[2]])})
        /\ validation.errors = errors
        /\ \A k \in 1..Len(validation.errors) :
              validation.errors[k].kind # "CONCURRENT_SHUTTLES"
        /\ validation.is_valid <=> errors = <<>>

\* C13: a job with two overlapping ShuttleMoves and no error has been validated:
\* one warning, is_valid true
C13_Witness ==
    /\ Returned
    /\ \E pr \in ShuttlePairs(job) :
          /\ IntervalsIntersect(job.operations[pr[1]], job.operations[pr[2]])
          /\ Len(ConcurrentWarnings(validation, pr[1], pr[2])) = 1
    /\ validation.is_valid


\* the zones of a type that hold a position
ZonesHolding(register, ztype, p) ==
    {k \in 1..Len(register.zones) :
        register.zones[k].zone_type = ztype /\ ContainsPoint(register.zones[k], p)}

\* the Measurement operations of a job whose register has a READOUT zone
ZonedMeasurements(j) ==
    {k \in 1..Len(j.operations) :
        /\ j.operations[k].op_type = "measure"
        /\ \E z \in 1..Len(j.register.zones) : j.register.zones[z].zone_type = "READOUT"}

\* the atoms a measurement reads that stand in no READOUT zone when it is walked
MeasuredOutsideReadout(j, k) ==
    {id \in MovedAtoms(j.operations[k]) :
        ZonesHolding(j.register, "READOUT",
                     PositionsBefore(j.register, j.operations, k)[id]) = {}}

OutsideReadoutWarned(r, k) ==
    \E n \in 1..Len(r.warnings) :
        /\ r.warnings[n].code = "MEASUREMENT_OUTSIDE_READOUT"
        /\ r.warnings[n].operation_index = k - 1

\* C14: when the register has a READOUT zone, a Measurement yields
\* MEASUREMENT_OUTSIDE_READOUT iff at least one measured atom stands inside no READOUT
\* zone; an atom inside a READOUT zone never triggers it, whatever zones are listed
\* before that one.
C14_WarnedIffOutsideReadout ==
    Returned =>
        \A k \in ZonedMeasurements(job) :
            OutsideReadoutWarned(validation, k) <=> MeasuredOutsideReadout(job, k) # {}


\* the connections whose command was accepted and whose simulation was started
Started(w) == handler[w].total_cycles > 0

\* min(1000, max(1, c))
ClampedRequest(c) ==
    LET low == IF c > 1 THEN c ELSE 1
    IN  IF low < 1000 THEN low ELSE 1000

\* C15: a simulation started with the requested cycle count c (an integer) runs with
\* total_cycles = min(1000, max(1, c)).
C15_RequestIsClamped ==
    \A w \in Conns :
        (Started(w) /\ handler[w].cycles.is_int) =>
            handler[w].total_cycles = ClampedRequest(handler[w].cycles.value)


\* the handler of socket w ends because its simulation could not start (the type is
\* refused, lines 464-480) or could not continue (a failure inside a cycle, lines
\* 508-510); a stop and a disconnect of the client are not failures
FailsIn(w) ==
    /\ handler[w].pc \in {"await_command", "sim_wait"}
    /\ handler'[w].pc = "done"
    /\ closed'[w] = closed[w]

LastFrameIs(w, status) ==
    LET mine == FramesOf(w, AllStatuses)
    IN  mine # <<>> /\ mine[Len(mine)].status = status

\* C16: whenever a simulation cannot start or cannot continue, the last frame
\* delivered for it has status ERROR.
C16_FailureEndsWithError ==
    [][\A w \in Conns : (Alone(w) /\ FailsIn(w)) => LastFrameIs(w, "ERROR")']_vars


\* what the manager holds for one client id: its sink, its run flag, its authentication
ManagerEntry(m, client_id) ==
    [sink |-> IF client_id \in DOMAIN m.active_connections
              THEN m.active_connections[client_id] ELSE "none",
     flag |-> IF client_id \in DOMAIN m.running_benchmarks
              THEN (IF m.running_benchmarks[client_id] THEN "running" ELSE "stopped")
              ELSE "none",
     authenticated |-> client_id \in m.authenticated_clients]

\* the frames of the runs of a client id, with the sockets they went to
ClientFrames(client_id) ==
    SelectSeq(frames, LAMBDA f : handler[f.run].client_id = client_id)

\* a step of the service on client id A: a handler of A moves (connect, first
\* message, command, cycle, disconnect), or a stop request for A takes effect
StepOn(A) ==
    \/ \E w \in Conns : handler'[w] # handler[w] /\ handler'[w].client_id = A
    \/ handler' = handler /\ ManagerEntry(manager, A)' # ManagerEntry(manager, A)

\* C17: for distinct client ids A and B, no step on A (connect, stop, disconnect)
\* changes B's run flag, B's sink or B's frames.
C17_ClientsIsolated ==
    [][\A A, B \in ClientIds :
          (A # B /\ StepOn(A)) =>
              /\ ManagerEntry(manager, B)' = ManagerEntry(manager, B)
              /\ ClientFrames(B)' = ClientFrames(B)]_vars

\* C17: clients a and b ran concurrently, a was stopped and has ended, and b still
\* runs with its sink registered
C17_Witness ==
    \E w, v \in Conns :
        /\ handler[w].client_id = "a" /\ handler[v].client_id = "b"
        /\ handler[w].total_cycles > 0 /\ stop_seen[w] # NoStop /\ handler[w].pc = "done"
        /\ handler[v].pc \in {"sim_poll", "sim_wait"}
        /\ ManagerEntry(manager, "b") = [sink |-> v, flag |-> "running", authenticated |-> TRUE]
        /\ ClientFrames("b") # <<>>


\* the atom ids an operation names: a ShieldingEvent without atom_ids names none
NamedAtoms(op) ==
    CASE op.op_type \in {"shuttle", "measure"} -> {op.atom_ids[k] : k \in 1..Len(op.atom_ids)}
      [] op.op_type = "shielding" ->
            IF op.atom_ids_is_none THEN {} ELSE {op.atom_ids[k] : k \in 1..Len(op.atom_ids)}
      [] op.op_type = "rydberg_gate" -> {op.control_atom, op.target_atom}
      [] OTHER -> {}

\* C18: a NeutralAtomJob is constructed iff every atom id named by any of its
\* operations exists in the register; a job that names no unknown atom, a
\* ShieldingEvent with zone_ids and no atom_ids included, is accepted.
C18_BuiltIffAtomsExist ==
    (candidate.kind = "job" /\ built # "pending" /\ Len(candidate.operations) >= 1) =>
        (built = "accepted" <=>
            \A k \in 1..Len(candidate.operations) :
                NamedAtoms(candidate.operations[k]) \subseteq AtomIdsOf(candidate.register))

\* C19: every constructible NeutralAtomRegister has min_atom_distance <= blockade_radius.
C19_MinDistanceWithinBlockade ==
    (candidate.kind = "register" /\ built = "accepted") =>
        candidate.register.min_atom_distance <= candidate.register.blockade_radius


\* two runs with the same parameters, the same draws and the same stop schedule
\* that have both ended
SameRun(w, v) ==
    /\ w # v /\ Alone(w)
    /\ Started(w) /\ Started(v)
    /\ handler[w].pc = "done" /\ handler[v].pc = "done"
    /\ handler[w].total_cycles = handler[v].total_cycles
    /\ handler[w].n_vib = handler[v].n_vib
    /\ handler[w].total_atoms_lost = handler[v].total_atoms_lost
    /\ handler[w].fidelity = handler[v].fidelity
    /\ stop_seen[w].phase = stop_seen[v].phase /\ stop_seen[w].cycle = stop_seen[v].cycle

\* C20: two runs with the same benchmark type, total_cycles, seed and stop schedule
\* emit identical frame sequences, field for field.
C20_RunsRepeat ==
    \A w, v \in Conns : SameRun(w, v) => FramesOf(w, AllStatuses) = FramesOf(v, AllStatuses)


\* C21: optimize_mapping fails with an error when the graph has more qubits than
\* the grid has slots, and otherwise returns zero initial cost and zero optimized
\* cost when the graph has no edges.
C21_RouterFailureModes ==
    mapping.status # "pending" =>
        /\ graph.nodes > router.width * router.height => mapping.status = "ValueError"
        /\ (graph.nodes <= router.width * router.height /\ graph.edges = <<>>) =>
              /\ mapping.status = "returned"
              /\ mapping.initial_cost = 0
              /\ mapping.optimized_cost = 0

\* C21: a graph of five qubits and no edge has been mapped onto too small a grid
C21_Witness ==
    /\ mapping.status = "ValueError"
    /\ graph.nodes = 5 /\ graph.edges = <<>>
    /\ router.width * router.height = 4


\* the moved grid atoms of a ShuttleMove in the order of sorted() by a coordinate
OrderBy(op, register, key(_)) ==
    LET moved == SelectSeq(op.atom_ids, LAMBDA id : id \in GridAtoms(register))
        srt == SortedStable([k \in 1..Len(moved) |-> <<key(moved[k]), moved[k]>>])
    IN  [k \in 1..Len(srt) |-> srt[k][2]]

\* the order of the moved grid atoms by current position differs from their order
\* by target position, in y or in x
OrderChanges(op, register, positions) ==
    \E axis \in {1, 2} :
        LET current(id) == positions[id][axis]
            target(id) == TargetOf(op, id)[axis]
        IN  OrderBy(op, register, current) # OrderBy(op, register, target)

\* the ShuttleMoves of a job that change the order of their moved atoms, the
\* positions taken as the earlier moves of the walk left them
OrderChangingMoves(j) ==
    {k \in 1..Len(j.operations) :
        /\ j.operations[k].op_type = "shuttle"
        /\ OrderChanges(j.operations[k], j.register,
                        PositionsBefore(j.register, j.operations, k))}

CountErrors(r, kind) == Cardinality({k \in 1..Len(r.errors) : r.errors[k].kind = kind})

\* C22: the topological rule compares the order of the moved atoms by their
\* current positions, as committed by the earlier moves, with their order by
\* target positions: a result holds one TopologicalViolation for each ShuttleMove
\* that changes that order and none for the others.
C22_TopologyFromCurrentPositions ==
    Returned =>
        CountErrors(validation, "TopologicalViolation") = Cardinality(OrderChangingMoves(job))


\* validate walks its next operation in this step
WalksOperation == pc = "walk" /\ op_index' = op_index + 1

\* the errors the step added
AddedErrors == SubSeq(errors', Len(errors) + 1, Len(errors'))

\* C23: in the walk only ShuttleMoves change the tracked positions, and a
\* RydbergGate is checked against the blockade radius with the positions the
\* preceding ShuttleMoves left: it gets a BlockadeDistance error iff its atoms, as
\* tracked when it is reached, are farther apart than the radius.
C23_OnlyShuttlesMovePositions ==
    [][WalksOperation =>
          LET op == job.operations[op_index + 1]
              d2 == Dist2(current_positions[op.control_atom], current_positions[op.target_atom])
              radius == job.register.blockade_radius
          IN  /\ op.op_type # "shuttle" => current_positions' = current_positions
              /\ op.op_type = "shuttle" =>
                    /\ \A id \in MovedAtoms(op) : current_positions'[id] = TargetOf(op, id)
                    /\ \A id \in AtomIdsOf(job.register) \ MovedAtoms(op) :
                          current_positions'[id] = current_positions[id]
              /\ op.op_type = "rydberg_gate" =>
                    ((\E k \in 1..Len(AddedErrors) : AddedErrors[k].kind = "BlockadeDistance")
                        <=> d2 > radius * radius)]_vars

\* C23: atoms 0 and 1 start 10 um apart, beyond the blockade radius; a ShuttleMove
\* brings atom 1 to 6 um from atom 0 and the RydbergGate that follows has passed
C23_Witness ==
    /\ Returned
    /\ Len(job.operations) = 2
    /\ job.operations[1] = ShuttleMove(<<1>>, <<<<6, 0>>>>, 0, 40)
    /\ job.operations[2].op_type = "rydberg_gate"
    /\ RegisterDist2(job.register, 0, 1)
           > job.register.blockade_radius * job.register.blockade_radius
    /\ current_positions[1] = <<6, 0>>
    /\ validation.is_valid


\* C24: an atom a ShuttleMove lists and that is rejected as not shuttleable keeps
\* its tracked position over that operation.
C24_RejectedAtomStays ==
    [][(WalksOperation /\ job.operations[op_index + 1].op_type = "shuttle") =>
          \A id \in MovedAtoms(job.operations[op_index + 1]) :
              AtomById(job.register, id).role # "AOD" =>
                  current_positions'[id] = current_positions[id]]_vars


\* C25: every Collision error the post-move check of a ShuttleMove produces names
\* a pair of atoms of which at least one is moved by that operation.
C25_CollisionsNameMovedAtoms ==
    [][(WalksOperation /\ job.operations[op_index + 1].op_type = "shuttle") =>
          \A k \in 1..Len(AddedErrors) :
              AddedErrors[k].kind = "Collision" =>
                  \E n \in 1..Len(AddedErrors[k].atoms) :
                      AddedErrors[k].atoms[n] \in MovedAtoms(job.operations[op_index + 1])]_vars


\* C26: a frame produced by a simulation run is delivered only to the sink of the
\* connection that started the run.
C26_FramesReachOwnSink ==
    \A k \in 1..Len(frames) :
        frames[k].payload.status \in {"RUNNING", "STOPPED", "COMPLETED"} =>
            frames[k].socket = frames[k].run


\* C27: after manager.disconnect removed a client's entries while its simulation
\* was running, no further frame of that run is delivered, and the run does not
\* pass another stop-flag poll into a cycle.
C27_DisconnectEndsRun ==
    [][\A w \in Sockets :
          dropped[w] =>
              /\ FramesOf(w, AllStatuses)' = FramesOf(w, AllStatuses)
              /\ ~(handler[w].pc = "sim_poll" /\ handler'[w].pc = "sim_wait")]_vars


\* the moved grid atoms of a ShuttleMove, ordered by key, ties in listing order
MovedOrder(op, register, key(_)) ==
    LET moved == SelectSeq(op.atom_ids, LAMBDA id : id \in GridAtoms(register))
        srt == SortedStable([k \in 1..Len(moved) |-> <<key(moved[k]), moved[k]>>])
    IN  [k \in 1..Len(srt) |-> srt[k][2]]

\* the move changes the order of its grid atoms along the axis, the initial order
\* taken from the coordinates the check sorts by
BreaksOrder(op, register, axis) ==
    LET initial(id) == TopologyStartCoordinate(register, <<>>, id, axis)
        target(id) == TargetOf(op, id)[axis]
    IN  /\ Cardinality(MovedAtoms(op) \cap GridAtoms(register)) >= 2
        /\ MovedOrder(op, register, initial) # MovedOrder(op, register, target)

TopologicalErrors(errs) == SelectSeq(errs, LAMBDA e : e.kind = "TopologicalViolation")

\* C30: a ShuttleMove adds at most one TopologicalViolation error to the result,
\* and when it breaks both the row (y) order and the column (x) order of its moved
\* atoms the one error it adds is the row-crossing error.
C30_OneTopologicalErrorPerMove ==
    [][(WalksOperation /\ job.operations[op_index + 1].op_type = "shuttle") =>
          LET op == job.operations[op_index + 1]
              added == TopologicalErrors(AddedErrors)
          IN  /\ Len(added) <= 1
              /\ (BreaksOrder(op, job.register, 2) /\ BreaksOrder(op, job.register, 1)) =>
                    added = <<TopologicalViolationError("row")>>]_vars

\* C30: the validator has returned on a job whose only operation takes grid atoms
\* 0 and 1 from (0, 0) and (4, 0) to (12, 12) and (6, 6), reversing them in y and
\* in x, and the result holds the row-crossing error alone
C30_Witness ==
    /\ Returned
    /\ Len(job.operations) = 1
    /\ job.operations[1] = ShuttleMove(<<0, 1>>, <<<<12, 12>>, <<6, 6>>>>, 0, 60)
    /\ BreaksOrder(job.operations[1], job.register, 2)
    /\ BreaksOrder(job.operations[1], job.register, 1)
    /\ TopologicalErrors(validation.errors) = <<TopologicalViolationError("row")>>

====
